---- MODULE Spec2Model ----
(***************************************************************************)
(* Link-validation engine of the QA audit tool.                            *)
(*                                                                         *)
(* ProfessionalLinkChecker.check_links_async fans one probe task per       *)
(* candidate link out under an asyncio.Semaphore; each probe               *)
(* (check_single_link_async) tries HEAD and falls back to GET.  The        *)
(* blocking variant check_single_link_sync follows the same protocol with  *)
(* the requests library.  Wall-clock quantities (response_time) are not    *)
(* part of the state.                                                      *)
(***************************************************************************)
EXTENDS Integers, Sequences, FiniteSets, TLC

(* ------------------------------ bounds -------------------------------- *)

\* Largest candidate list handed to check_links_async.
MaxLinks == 2

\* Largest value of max_concurrent.
MaxConcurrent == 2

(* ------------------------------ values -------------------------------- *)

\* Optional[int] without a value (status_code = None).
None == -1

\* An absolute URL: scheme://host[:port]path[#fragment].  port = "" when
\* the URL names none, fragment = "" likewise.
UP(host, port, path) == [scheme |-> "https", host |-> host, port |-> port, path |-> path, fragment |-> ""]

U(host, path) == UP(host, "", path)

\* urlparse(url).netloc: the host together with the port the URL names.
Netloc(url) == <<url.host, url.port>>

\* urlparse(url).hostname
Hostname(url) == url.host

\* urlparse(url) raises ValueError on a bracket that is never closed.
UrlparseRaises(url) == url.host = "[bad"

\* A url that urlparse rejects.
MalformedUrl == U("[bad", "/x")

\* base_url of the checker and the host kept from it by __init__.
BaseUrl == U("site.test", "/")

base_domain == Netloc(BaseUrl)

\* Where a redirected request ends.
MovedUrl == U("site.test", "/moved")

\* (absolute_url, anchor_text) tuples as extract_links returns them:
\* no URL occurs twice.
Candidates ==
    << [url |-> U("site.test", "/a"),  anchor |-> "A"],
       [url |-> U("other.test", "/b"), anchor |-> "B"],
       [url |-> U("site.test", "/c"),  anchor |-> "C"],
       [url |-> U("other.test", "/d"), anchor |-> "D"] >>

\* Lists a caller may hand to check_links_async or take a link for
\* check_single_link_sync from: what extract_links returns, or anything
\* else, a url that urlparse rejects included.
CallLists == {Candidates, <<[url |-> MalformedUrl, anchor |-> "X"]>> \o Candidates}

Statuses == {200, 405, 500}

\* What one HTTP attempt can end in.  kind = "response": the library
\* returned a response object (status, final url, history of redirects).
\* kind = "exception": the library raised; request_exception says whether
\* the exception is the library's own failure of the request (a
\* requests.exceptions.RequestException for the blocking probe), status is
\* the status of the response attached to the exception (None when there
\* is none), text is str(exception).  elapsed is time.time() - start_time
\* read after the attempt, in ticks of the clock.
Response(status, url, history) ==
    [kind |-> "response", status |-> status, url |-> url, history |-> history,
     content_type |-> "text/html", text |-> "", request_exception |-> FALSE,
     elapsed |-> 1]

Raised(text, status, url, isreq) ==
    [kind |-> "exception", status |-> status, url |-> url, history |-> <<>>,
     content_type |-> "", text |-> text, request_exception |-> isreq,
     elapsed |-> 1]

Pending(url) ==
    [kind |-> "pending", status |-> None, url |-> url, history |-> <<>>,
     content_type |-> "", text |-> "", request_exception |-> FALSE,
     elapsed |-> 0]

Responses(url) ==
    {Response(s, url, <<>>) : s \in Statuses} \cup {Response(200, MovedUrl, <<url>>)}

\* session.head of aiohttp is called without allow_redirects, which it
\* leaves off: a redirecting server's 3xx answer is the response.
AsyncHeadResponses(url) ==
    {Response(s, url, <<>>) : s \in Statuses \cup {302}}

Exceptions(url) ==
    { Raised("Connection refused", None, url, TRUE),
      Raised("Read timeout", None, url, TRUE),
      Raised("Exceeded 30 redirects", 302, url, TRUE),
      Raised("label too long", None, url, FALSE) }

(* --------------------------- LinkResult ------------------------------- *)

IsWorking(status) == 200 <= status /\ status < 400

LinkType(url) == IF Netloc(url) = base_domain THEN "internal" ELSE "external"

\* redirect_chain of the blocking probe: history plus final url, kept only
\* when more than one URL was visited.
RedirectChain(resp) ==
    LET chain == resp.history \o <<resp.url>>
    IN  IF Len(chain) > 1 THEN chain ELSE <<>>

LinkResult(url, status_code, response_time, is_working, error_message, anchor_text, link_type, redirect_chain, final_url, content_type, method_used, retry_count) ==
    [url |-> url, status_code |-> status_code, response_time |-> response_time,
     is_working |-> is_working,
     error_message |-> error_message, anchor_text |-> anchor_text,
     link_type |-> link_type, redirect_chain |-> redirect_chain,
     final_url |-> final_url, content_type |-> content_type,
     method_used |-> method_used, retry_count |-> retry_count]

\* check_single_link_sync, HEAD answered.
SyncHeadResult(link, resp) ==
    LinkResult(link.url, resp.status, resp.elapsed, IsWorking(resp.status), "", link.anchor,
               LinkType(link.url), RedirectChain(resp), resp.url,
               resp.content_type, "HEAD", 0)

\* check_single_link_sync, GET answered (retry_count keeps its default).
SyncGetResult(link, resp) ==
    LinkResult(link.url, resp.status, resp.elapsed, IsWorking(resp.status), "", link.anchor,
               LinkType(link.url), RedirectChain(resp), resp.url,
               resp.content_type, "GET", 0)

\* check_single_link_sync, GET raised a RequestException: the status of the
\* response attached to the exception, if any, is recorded.
SyncGetErrorResult(link, get_error) ==
    LinkResult(link.url, get_error.status, get_error.elapsed, FALSE, get_error.text, link.anchor,
               LinkType(link.url), <<>>, link.url, "", "GET", 1)

\* check_single_link_async, HEAD answered.
AsyncHeadResult(link, resp) ==
    LinkResult(link.url, resp.status, resp.elapsed, IsWorking(resp.status), "", link.anchor,
               LinkType(link.url), <<>>, resp.url, resp.content_type,
               "ASYNC_HEAD", 0)

\* The fallback's result marked broken whatever GET answered.
AsyncGetResultBroken(link, resp) ==
    LinkResult(link.url, resp.status, resp.elapsed, FALSE, "", link.anchor,
               LinkType(link.url), <<>>, resp.url, resp.content_type,
               "ASYNC_GET", 0)

\* check_single_link_async, GET answered.
AsyncGetResult(link, resp) ==
    LinkResult(link.url, resp.status, resp.elapsed, IsWorking(resp.status), "", link.anchor,
               LinkType(link.url), <<>>, resp.url, resp.content_type,
               "ASYNC_GET", 0)

\* check_single_link_async, GET raised.
AsyncGetErrorResult(link, get_error) ==
    LinkResult(link.url, None, get_error.elapsed, FALSE, get_error.text, link.anchor,
               LinkType(link.url), <<>>, link.url, "", "ASYNC_GET", 0)

\* The handler written as "except Exception".
SyncCatchesAll(e) == TRUE

\* except requests.exceptions.RequestException
SyncCatches(e) == e.request_exception

\* except Exception
AsyncCatches(e) == TRUE

(* --------------------------- extract_links ---------------------------- *)

\* Most anchor elements of a fetched page.
MaxAnchors == 2

\* anchor_text is cut to this many characters.
AnchorTextLimit == 100

\* An <a href=...> element: the raw href attribute, the element's text as
\* get_text(strip=True) gives it and its title attribute, each a sequence
\* of tokens (a token stands for a run of characters, " " for white space).
Anchor(href, text, title) == [href |-> href, text |-> text, title |-> title]

\* A text of more than AnchorTextLimit characters.
LongText == [k \in 1..(AnchorTextLimit + 1) |-> "x"]

Anchors ==
    { Anchor(<<"/a">>, <<"A">>, <<>>),
      Anchor(<<" ", "/a", " ">>, <<>>, <<"T">>),
      Anchor(<<"https://", "other.test", "/b">>, <<"B">>, <<"T">>),
      Anchor(<<"https://", "site.test", "8443", "/a">>, <<>>, <<>>),
      Anchor(<<"#", "top">>, <<"top">>, <<>>),
      Anchor(<<" ", "javascript:", "void(0)">>, <<"J">>, <<>>),
      Anchor(<<"mailto:", "x@y.com">>, <<"M">>, <<>>),
      Anchor(<<"tel:", "+123">>, <<"P">>, <<>>),
      Anchor(<<" ">>, <<"E">>, <<>>),
      Anchor(<<"JavaScript:", "void(0)">>, <<"J">>, <<>>),
      Anchor(<<"https://", "bad host", "/x">>, <<"S">>, <<>>),
      Anchor(<<"https://", "[bad", "/x">>, <<"V">>, <<>>) }

\* str.strip(): white space taken off both ends.
RECURSIVE StripLeft(_)
StripLeft(h) == IF Len(h) > 0 /\ h[1] = " " THEN StripLeft(Tail(h)) ELSE h

RECURSIVE StripRight(_)
StripRight(h) ==
    IF Len(h) > 0 /\ h[Len(h)] = " " THEN StripRight(SubSeq(h, 1, Len(h) - 1)) ELSE h

Strip(h) == StripRight(StripLeft(h))

\* The test without its first prefix.
SkipsNoFragment(href) ==
    Len(href) = 0 \/ href[1] \in {"javascript:", "mailto:", "tel:"}

\* not href or href.startswith(('#', 'javascript:', 'mailto:', 'tel:'))
Skipped(href) ==
    Len(href) = 0 \/ href[1] \in {"#", "javascript:", "mailto:", "tel:"}

\* urljoin parses the href with urlparse, which raises on an open bracket.
UrljoinRaises(href) == Len(href) > 0 /\ href[1] = "https://" /\ UrlparseRaises(U(href[2], ""))

\* urljoin(self.base_url, href): an href with a scheme stands for itself,
\* a path is resolved against the base.
Urljoin(base, href) ==
    IF Len(href) = 0 THEN base
    ELSE IF href[1] = "#" THEN [base EXCEPT !.fragment = href[2]]
    ELSE IF href[1] = "https://"
    THEN IF Len(href) = 4 THEN UP(href[2], href[3], href[4]) ELSE U(href[2], href[3])
    ELSE IF Len(href) = 2
    THEN [scheme |-> href[1], host |-> "", port |-> "", path |-> href[2], fragment |-> ""]
    ELSE [base EXCEPT !.path = href[1], !.fragment = ""]

\* validators.url: a known scheme and a well-formed host are required.
ValidUrl(url) == url.scheme = "https" /\ url.host \in {"site.test", "other.test"}

\* anchor_text[:100] + '...' if len(anchor_text) > 100 else anchor_text
Truncate(text) ==
    IF Len(text) > AnchorTextLimit
    THEN SubSeq(text, 1, AnchorTextLimit) \o <<".", ".", ".">>
    ELSE text

\* link.get_text(strip=True) or link.get('title', '') or href
AnchorText(a, href) ==
    Truncate(IF Len(a.text) > 0 THEN a.text
             ELSE IF Len(a.title) > 0 THEN a.title ELSE href)

\* The first loop of extract_links over the first n anchors.
RECURSIVE RawLinks(_, _)
RawLinks(doc, n) ==
    IF n = 0 THEN <<>>
    ELSE LET href == Strip(doc[n].href)
             rest == RawLinks(doc, n - 1)
         IN  IF Skipped(href) THEN rest
             ELSE IF ~ValidUrl(Urljoin(BaseUrl, href)) THEN rest
             ELSE Append(rest, [url |-> Urljoin(BaseUrl, href),
                                anchor |-> AnchorText(doc[n], href)])

\* The second loop over the first n links: seen and unique_links.
RECURSIVE UniqueLoop(_, _)
UniqueLoop(found, n) ==
    IF n = 0 THEN [seen |-> {}, unique_links |-> <<>>]
    ELSE LET before == UniqueLoop(found, n - 1)
         IN  IF found[n].url \notin before.seen
             THEN [seen |-> before.seen \cup {found[n].url},
                   unique_links |-> Append(before.unique_links, found[n])]
             ELSE before

\* The list returned as it is.
KeepDuplicates(found) == found

\* A later occurrence taking the place of the first.
RECURSIVE KeepLastLoop(_, _)
KeepLastLoop(found, n) ==
    IF n = 0 THEN <<>>
    ELSE LET before == KeepLastLoop(found, n - 1)
         IN  IF \E k \in 1..Len(before) : before[k].url = found[n].url
             THEN [k \in 1..Len(before) |->
                      IF before[k].url = found[n].url THEN found[n] ELSE before[k]]
             ELSE Append(before, found[n])

KeepLast(found) == KeepLastLoop(found, Len(found))

\* Remove duplicates while preserving order.
RemoveDuplicates(found) == UniqueLoop(found, Len(found)).unique_links

\* extract_links(html_content)
ExtractLinks(doc) == RemoveDuplicates(RawLinks(doc, Len(doc)))

\* extract_links raises when urljoin does on an href that is not skipped.
ExtractRaises(doc) ==
    \E k \in 1..Len(doc) :
        ~Skipped(Strip(doc[k].href)) /\ UrljoinRaises(Strip(doc[k].href))

(* ---------------- calculate_statistics, categorize_errors ------------- *)

\* Longest result list handed to the two functions on their own.
MaxResults == 3

\* Bits of the significand of a float (53 in Python; kept small here so
\* that rounding shows on small numbers).
MantissaBits == 3

\* The smallest duration whose successor is not a float.
BigTime == 2 ^ MantissaBits

\* The float nearest to k / d, ties to the even significand: the quotient
\* is kept to MantissaBits significant bits, in units of unit ticks.
RECURSIVE RoundDiv(_, _, _)
RoundDiv(k, d, unit) ==
    IF k >= BigTime * unit * d THEN RoundDiv(k, d, 2 * unit)
    ELSE LET q == k \div (d * unit)
             r == k % (d * unit)
         IN  IF 2 * r > d * unit \/ (2 * r = d * unit /\ q % 2 = 1)
             THEN (q + 1) * unit ELSE q * unit

\* a + b and a / n on floats.
FloatAdd(a, b) == RoundDiv(a + b, 1, 1)

FloatDiv(a, n) == RoundDiv(a, n, 1)

\* sum(values): the floats are added one by one from the left.
RECURSIVE FloatSum(_, _)
FloatSum(values, n) ==
    IF n = 0 THEN 0 ELSE FloatAdd(FloatSum(values, n - 1), values[n])

\* [r.response_time for r in link_results if r.response_time > 0]
RECURSIVE ResponseTimes(_, _)
ResponseTimes(link_results, n) ==
    IF n = 0 THEN <<>>
    ELSE IF link_results[n].response_time > 0
    THEN Append(ResponseTimes(link_results, n - 1), link_results[n].response_time)
    ELSE ResponseTimes(link_results, n - 1)

\* sum(response_times) / len(response_times) if response_times else 0
AvgResponseTime(link_results) ==
    LET response_times == ResponseTimes(link_results, Len(link_results))
    IN  IF Len(response_times) > 0
        THEN FloatDiv(FloatSum(response_times, Len(response_times)), Len(response_times))
        ELSE 0

\* str.lower() on the messages that occur.
Lower(message) ==
    CASE message = "Connection refused" -> "connection refused"
      [] message = "Read timeout" -> "read timeout"
      [] message = "Connect Timeout" -> "connect timeout"
      [] message = "Exceeded 30 redirects" -> "exceeded 30 redirects"
      [] OTHER -> message

\* 'timeout' in text, a test that tells upper case from lower case.
ContainsTimeout(text) == text \in {"Read timeout", "read timeout", "connect timeout"}

\* The test made on the message as it is.
TimeoutInMessageAsIs(message) == ContainsTimeout(message)

\* 'timeout' in error_message.lower()
TimeoutInMessage(message) == ContainsTimeout(Lower(message))

\* A status code that None also passes for.
TruthyOrNone(status_code) == status_code # 0

\* "if result.status_code:" is false for None and for 0.
Truthy(status_code) == status_code # None /\ status_code # 0

\* Positions of a list of results.
Places(link_results) == 1..Len(link_results)

\* status_codes[result.status_code] += 1 for each result that has one.
StatusCodeDistribution(link_results) ==
    [code \in {link_results[k].status_code : k \in {j \in Places(link_results) : Truthy(link_results[j].status_code)}} |->
        Cardinality({k \in Places(link_results) : link_results[k].status_code = code})]

\* The test with timed-out links taken out.
NetworkErrorButTimeout(r) ==
    ~Truthy(r.status_code) /\ ~r.is_working /\ ~TimeoutInMessage(r.error_message)

\* not r.status_code and not r.is_working
NetworkError(r) == ~Truthy(r.status_code) /\ ~r.is_working

\* calculate_statistics(link_results); success_rate, a function of
\* working_links and total_links alone, is left out.  len([r for r in link_results if
\* test(r)]) is the number of positions whose result passes the test.
CalculateStatistics(link_results) ==
    LET total_links == Len(link_results)
        working_links == Cardinality({k \in Places(link_results) : link_results[k].is_working})
    IN  [total_links |-> total_links,
         working_links |-> working_links,
         broken_links |-> total_links - working_links,
         internal_links |-> Cardinality({k \in Places(link_results) : link_results[k].link_type = "internal"}),
         external_links |-> Cardinality({k \in Places(link_results) : link_results[k].link_type = "external"}),
         avg_response_time |-> AvgResponseTime(link_results),
         status_code_distribution |-> StatusCodeDistribution(link_results),
         redirects |-> Cardinality({k \in Places(link_results) : link_results[k].redirect_chain # <<>>}),
         timeouts |-> Cardinality({k \in Places(link_results) : TimeoutInMessage(link_results[k].error_message)}),
         network_errors |-> Cardinality({k \in Places(link_results) : NetworkError(link_results[k])})]

\* The loop with a status below 500 taken for 4xx and any other for 5xx.
CategoriesOfNoRange(result) ==
    IF result.is_working
    THEN {"working_links"} \cup (IF result.redirect_chain # <<>> THEN {"redirects"} ELSE {})
    ELSE {"broken_links"} \cup
         (IF Truthy(result.status_code)
          THEN IF result.status_code < 500 THEN {"4xx_errors"} ELSE {"5xx_errors"}
          ELSE IF TimeoutInMessage(result.error_message) THEN {"timeouts"}
               ELSE {"network_errors"})

\* The branches of the loop of categorize_errors a result takes.
CategoriesOf(result) ==
    IF result.is_working
    THEN {"working_links"} \cup (IF result.redirect_chain # <<>> THEN {"redirects"} ELSE {})
    ELSE {"broken_links"} \cup
         (IF Truthy(result.status_code)
          THEN IF 400 <= result.status_code /\ result.status_code < 500 THEN {"4xx_errors"}
               ELSE IF 500 <= result.status_code /\ result.status_code < 600 THEN {"5xx_errors"}
               ELSE {}
          ELSE IF TimeoutInMessage(result.error_message) THEN {"timeouts"}
               ELSE {"network_errors"})

CategoryNames ==
    {"working_links", "broken_links", "4xx_errors", "5xx_errors",
     "network_errors", "redirects", "timeouts"}

\* categorize_errors(link_results): each list holds, in the order of
\* link_results, the results appended to it.
CategorizeErrors(link_results) ==
    [name \in CategoryNames |->
        SelectSeq(link_results, LAMBDA r : name \in CategoriesOf(r))]

(* ------------------------------ state --------------------------------- *)

VARIABLES
    max_concurrent,   \* self.max_concurrent
    links,            \* the list passed to check_links_async
    batch_pc,         \* "idle", "gather", "returned", "raised"
    session_open,     \* the aiohttp.ClientSession of the batch is open
    sem_value,        \* free slots of the asyncio.Semaphore
    task_pc,          \* per task: "waiting", "head", "get", "done", "raised"
    task_log,         \* per task: the HTTP attempts made, in order
    task_result,      \* per task: what the task returned (a LinkResult)
    valid_results,    \* the list check_links_async returns
    sync_pc,          \* check_single_link_sync: "idle", "head", "get", "done", "raised"
    sync_link,        \* its (url, anchor_text)
    sync_log,         \* its HTTP attempts
    sync_result,      \* the LinkResult it returned
    audit_pc,         \* audit_website: "none" (no audit runs), "received",
                      \* "fetching", "extracting", "checking", "done", "failed"
    request,          \* its AuditRequest
    html,             \* html_content, the anchors of the fetched page
    audit_response,   \* what the caller of audit_website gets
    statistics,       \* calculate_statistics(link_results)
    categories,       \* categorize_errors(link_results)
    now,              \* the clock, in ticks since the start
    attempt_start     \* per task: the tick its current HTTP attempt began at

vars == <<max_concurrent, links, batch_pc, session_open, sem_value, task_pc,
          task_log, task_result, valid_results, sync_pc, sync_link, sync_log,
          sync_result, audit_pc, request, html, audit_response, statistics,
          categories, now, attempt_start>>

clock_vars == <<now, attempt_start>>

audit_vars == <<audit_pc, request, html, audit_response, statistics, categories>>

batch_vars == <<batch_pc, session_open, sem_value, task_pc, task_log,
                task_result, valid_results>>

sync_vars == <<sync_pc, sync_link, sync_log, sync_result>>

\* Positions of the list passed in.
LinkIndexes == 1..Len(links)

\* The probe tasks created so far: none before the batch starts, then one
\* per link.
Tasks == DOMAIN task_pc

Attempt(method, outcome) == [method |-> method, outcome |-> outcome]

\* A LinkResult slot that holds nothing yet.
NoResult == LinkResult(U("", ""), None, 0, FALSE, "", "", "", <<>>, U("", ""), "", "", 0)

\* AuditRequest(url, max_concurrent)
AuditRequest(url, limit) == [entry |-> "audit_website", url |-> url, max_concurrent |-> limit]

\* The same run entered through SEOAnalyzer.analyze, called by the
\* command line with its url and its --max-concurrent.
AnalyzeCall(url, limit) == [AuditRequest(url, limit) EXCEPT !.entry = "analyze"]

NoRequest == AuditRequest(U("", ""), 0)

\* The answer of the endpoint: the status of the HTTP response and, for an
\* HTTPException, its detail.
HttpResponse(status_code, detail) == [status_code |-> status_code, detail |-> detail]

NoResponse == HttpResponse(None, "")

Init ==
    /\ max_concurrent \in 0..MaxConcurrent
    /\ \E list \in CallLists : \E n \in 0..MaxLinks : links = SubSeq(list, 1, n)
    /\ batch_pc = "idle"
    /\ session_open = FALSE
    /\ sem_value = 0
    /\ task_pc = <<>>
    /\ task_log = <<>>
    /\ task_result = <<>>
    /\ valid_results = <<>>
    /\ sync_pc = "idle"
    /\ sync_link = Candidates[1]
    /\ sync_log = <<>>
    /\ sync_result = NoResult
    /\ audit_pc = "none"
    /\ request = NoRequest
    /\ html = <<>>
    /\ audit_response = NoResponse
    /\ statistics = <<>>
    /\ categories = <<>>
    /\ now = 0
    /\ attempt_start = <<>>

(* ----------------------- check_links_async ---------------------------- *)

\* acquire() that lets a caller through at value 0.
CanAcquireAtZero(value) == value >= 0

\* asyncio.Semaphore: acquire() proceeds only while the value is positive.
CanAcquire(value) == value > 0

\* acquire() that takes no slot.
AcquireNone(value) == value

Acquire(value) == value - 1

\* The slot given back when HEAD fails, before the GET request.
SlotGivenBack(value) == value + 1

\* The GET fallback runs inside the same "async with semaphore" as the
\* HEAD request: the semaphore is not touched in between.
SlotKept(value) == value

\* A slot that is never given back.
ReleaseLost(value) == value

\* Leaving "async with semaphore" gives the slot back.
Release(value) == value + 1

\* gather called without return_exceptions.
ReturnExceptionsOff == FALSE

\* asyncio.gather(*tasks, return_exceptions=True)
ReturnExceptions == TRUE

Finished(i) == task_pc[i] \in {"done", "raised"}

\* Number of probes inside check_single_link_async.
InFlight == Cardinality({i \in Tasks : task_pc[i] \in {"head", "get"}})

\* A batch started at any point of an audit.
ProbingMayStartAnytime(pc) == TRUE

\* check_links_async is called directly, or by the audit once
\* extract_links has returned.
ProbingMayStart(pc) == pc \in {"none", "checking"}

\* The session is entered, the semaphore built, one task per link created,
\* and the coroutine waits in gather.  The blocking probe is a plain
\* function call on the same thread, so it never runs inside a batch.
StartBatch ==
    /\ batch_pc = "idle"
    /\ sync_pc = "idle"
    /\ ProbingMayStart(audit_pc)
    /\ batch_pc' = "gather"
    /\ session_open' = TRUE
    /\ sem_value' = max_concurrent
    /\ task_pc' = [i \in LinkIndexes |-> "waiting"]
    /\ task_log' = [i \in LinkIndexes |-> <<>>]
    /\ task_result' = [i \in LinkIndexes |-> NoResult]
    /\ attempt_start' = [i \in LinkIndexes |-> now]
    /\ UNCHANGED <<now, audit_vars, max_concurrent, links, valid_results, sync_vars>>

\* check_with_semaphore gets a slot and the probe runs up to its HEAD request.
Admit(i) ==
    /\ batch_pc = "gather"
    /\ task_pc[i] = "waiting"
    /\ CanAcquire(sem_value)
    /\ ~UrlparseRaises(links[i].url)
    /\ sem_value' = Acquire(sem_value)
    /\ task_pc' = [task_pc EXCEPT ![i] = "head"]
    /\ task_log' = [task_log EXCEPT ![i] = <<Attempt("HEAD", Pending(links[i].url))>>]
    /\ attempt_start' = [attempt_start EXCEPT ![i] = now]
    /\ UNCHANGED <<now, audit_vars, max_concurrent, links, batch_pc, session_open, task_result,
                   valid_results, sync_vars>>

\* check_with_semaphore gets a slot and the probe raises before its try
\* block (urlparse rejects the url); leaving the async with gives the slot back.
AdmitRaise(i) ==
    /\ batch_pc = "gather"
    /\ task_pc[i] = "waiting"
    /\ CanAcquire(sem_value)
    /\ UrlparseRaises(links[i].url)
    /\ sem_value' = Release(Acquire(sem_value))
    /\ task_pc' = [task_pc EXCEPT ![i] = "raised"]
    /\ UNCHANGED <<clock_vars, audit_vars, max_concurrent, links, batch_pc, session_open, task_log,
                   task_result, valid_results, sync_vars>>

\* session.head answered: the probe returns and the slot is released.
HeadResponse(i, resp) ==
    /\ batch_pc = "gather"
    /\ task_pc[i] = "head"
    /\ task_pc' = [task_pc EXCEPT ![i] = "done"]
    /\ task_log' = [task_log EXCEPT ![i] = <<Attempt("HEAD", resp)>>]
    /\ task_result' = [task_result EXCEPT ![i] = AsyncHeadResult(links[i], resp)]
    /\ sem_value' = Release(sem_value)
    /\ UNCHANGED <<clock_vars, audit_vars, max_concurrent, links, batch_pc, session_open,
                   valid_results, sync_vars>>

\* session.head raised: the handler issues session.get.
HeadFail(i, e) ==
    /\ batch_pc = "gather"
    /\ task_pc[i] = "head"
    /\ AsyncCatches(e)
    /\ task_pc' = [task_pc EXCEPT ![i] = "get"]
    /\ task_log' = [task_log EXCEPT ![i] =
                      <<Attempt("HEAD", e), Attempt("GET", Pending(links[i].url))>>]
    /\ attempt_start' = [attempt_start EXCEPT ![i] = now]
    /\ sem_value' = SlotKept(sem_value)
    /\ UNCHANGED <<now, audit_vars, max_concurrent, links, batch_pc, session_open,
                   task_result, valid_results, sync_vars>>

\* session.get answered.
GetResponse(i, resp) ==
    /\ batch_pc = "gather"
    /\ task_pc[i] = "get"
    /\ task_pc' = [task_pc EXCEPT ![i] = "done"]
    /\ task_log' = [task_log EXCEPT ![i][2] = Attempt("GET", resp)]
    /\ task_result' = [task_result EXCEPT ![i] = AsyncGetResult(links[i], resp)]
    /\ sem_value' = Release(sem_value)
    /\ UNCHANGED <<clock_vars, audit_vars, max_concurrent, links, batch_pc, session_open,
                   valid_results, sync_vars>>

\* session.get raised.
GetFail(i, get_error) ==
    /\ batch_pc = "gather"
    /\ task_pc[i] = "get"
    /\ AsyncCatches(get_error)
    /\ task_pc' = [task_pc EXCEPT ![i] = "done"]
    /\ task_log' = [task_log EXCEPT ![i][2] = Attempt("GET", get_error)]
    /\ task_result' = [task_result EXCEPT ![i] = AsyncGetErrorResult(links[i], get_error)]
    /\ sem_value' = Release(sem_value)
    /\ UNCHANGED <<clock_vars, audit_vars, max_concurrent, links, batch_pc, session_open,
                   valid_results, sync_vars>>

\* The results gather hands over that are LinkResults, in task order.
RECURSIVE FilterValid(_)
FilterValid(i) ==
    IF i = 0 THEN <<>>
    ELSE IF task_pc[i] = "done" THEN Append(FilterValid(i - 1), task_result[i])
    ELSE FilterValid(i - 1)

\* A wait that is over with the first task to finish.
FirstCompleted(return_exceptions) == \E i \in Tasks : Finished(i)

\* gather is over when every task is, or, without return_exceptions, as
\* soon as one task has raised.
GatherReady(return_exceptions) ==
    \/ \A i \in Tasks : Finished(i)
    \/ ~return_exceptions /\ \E i \in Tasks : task_pc[i] = "raised"

GatherRaises(return_exceptions) ==
    ~return_exceptions /\ \E i \in Tasks : task_pc[i] = "raised"

\* gather returns, the exceptions are filtered out, the session is closed
\* and check_links_async returns valid_results.
Return ==
    /\ batch_pc = "gather"
    /\ GatherReady(ReturnExceptions)
    /\ batch_pc' = IF GatherRaises(ReturnExceptions) THEN "raised" ELSE "returned"
    /\ valid_results' = IF GatherRaises(ReturnExceptions) THEN <<>>
                        ELSE FilterValid(Len(links))
    /\ session_open' = FALSE
    /\ UNCHANGED <<clock_vars, audit_vars, max_concurrent, links, sem_value, task_pc, task_log,
                   task_result, sync_vars>>

(* --------------------- check_single_link_sync ------------------------- *)

\* The call runs up to its session.head request.
SyncCall(link) ==
    /\ sync_pc = "idle"
    /\ batch_pc = "idle"
    /\ ~UrlparseRaises(link.url)
    /\ sync_link' = link
    /\ sync_pc' = "head"
    /\ sync_log' = <<Attempt("HEAD", Pending(link.url))>>
    /\ UNCHANGED <<clock_vars, audit_vars, max_concurrent, links, batch_vars, sync_result>>

\* The call raises before its try block (urlparse rejects the url).
SyncCallRaise(link) ==
    /\ sync_pc = "idle"
    /\ batch_pc = "idle"
    /\ UrlparseRaises(link.url)
    /\ sync_link' = link
    /\ sync_pc' = "raised"
    /\ UNCHANGED <<clock_vars, audit_vars, max_concurrent, links, batch_vars, sync_log, sync_result>>

SyncHeadResponse(resp) ==
    /\ sync_pc = "head"
    /\ sync_pc' = "done"
    /\ sync_log' = <<Attempt("HEAD", resp)>>
    /\ sync_result' = SyncHeadResult(sync_link, resp)
    /\ UNCHANGED <<clock_vars, audit_vars, max_concurrent, links, batch_vars, sync_link>>

\* session.head raised: a RequestException leads to session.get, anything
\* else leaves the function.
SyncHeadFail(e) ==
    /\ sync_pc = "head"
    /\ IF SyncCatches(e)
       THEN /\ sync_pc' = "get"
            /\ sync_log' = <<Attempt("HEAD", e), Attempt("GET", Pending(sync_link.url))>>
       ELSE /\ sync_pc' = "raised"
            /\ sync_log' = <<Attempt("HEAD", e)>>
    /\ UNCHANGED <<clock_vars, audit_vars, max_concurrent, links, batch_vars, sync_link, sync_result>>

SyncGetResponse(resp) ==
    /\ sync_pc = "get"
    /\ sync_pc' = "done"
    /\ sync_log' = [sync_log EXCEPT ![2] = Attempt("GET", resp)]
    /\ sync_result' = SyncGetResult(sync_link, resp)
    /\ UNCHANGED <<clock_vars, audit_vars, max_concurrent, links, batch_vars, sync_link>>

SyncGetFail(get_error) ==
    /\ sync_pc = "get"
    /\ sync_log' = [sync_log EXCEPT ![2] = Attempt("GET", get_error)]
    /\ IF SyncCatches(get_error)
       THEN /\ sync_pc' = "done"
            /\ sync_result' = SyncGetErrorResult(sync_link, get_error)
       ELSE /\ sync_pc' = "raised"
            /\ UNCHANGED sync_result
    /\ UNCHANGED <<clock_vars, audit_vars, max_concurrent, links, batch_vars, sync_link>>

(* --------------------------- specification ---------------------------- *)

\* The links check_single_link_sync may be called with.
CandidateSet == UNION {{list[k] : k \in 1..Len(list)} : list \in CallLists}

Next ==
    \/ StartBatch
    \/ \E i \in Tasks : Admit(i)
    \/ \E i \in Tasks : AdmitRaise(i)
    \/ \E i \in Tasks : \E resp \in AsyncHeadResponses(links[i].url) : HeadResponse(i, resp)
    \/ \E i \in Tasks : \E e \in Exceptions(links[i].url) : HeadFail(i, e)
    \/ \E i \in Tasks : \E resp \in Responses(links[i].url) : GetResponse(i, resp)
    \/ \E i \in Tasks : \E e \in Exceptions(links[i].url) : GetFail(i, e)
    \/ Return
    \/ \E link \in CandidateSet : SyncCall(link)
    \/ \E link \in CandidateSet : SyncCallRaise(link)
    \/ \E resp \in Responses(sync_link.url) : SyncHeadResponse(resp)
    \/ \E e \in Exceptions(sync_link.url) : SyncHeadFail(e)
    \/ \E resp \in Responses(sync_link.url) : SyncGetResponse(resp)
    \/ \E e \in Exceptions(sync_link.url) : SyncGetFail(e)

Spec == Init /\ [][Next]_vars

(* ------------------- the batch under fair scheduling ------------------ *)

\* One answer and one failure are enough to drive every branch of a probe.
LiveResponses(url) == {Response(200, url, <<>>)}

LiveExceptions(url) == {Raised("Read timeout", None, url, TRUE)}

\* Any step of probe task i: its admission by the semaphore or the end of
\* one of its HTTP attempts.
TaskStep(i) ==
    /\ i \in Tasks
    /\ \/ Admit(i)
       \/ AdmitRaise(i)
       \/ \E resp \in LiveResponses(links[i].url) : HeadResponse(i, resp)
       \/ \E e \in LiveExceptions(links[i].url) : HeadFail(i, e)
       \/ \E resp \in LiveResponses(links[i].url) : GetResponse(i, resp)
       \/ \E e \in LiveExceptions(links[i].url) : GetFail(i, e)

NextLive ==
    \/ StartBatch
    \/ \E i \in Tasks : Admit(i)
    \/ \E i \in Tasks : AdmitRaise(i)
    \/ \E i \in Tasks : \E resp \in LiveResponses(links[i].url) : HeadResponse(i, resp)
    \/ \E i \in Tasks : \E e \in LiveExceptions(links[i].url) : HeadFail(i, e)
    \/ \E i \in Tasks : \E resp \in LiveResponses(links[i].url) : GetResponse(i, resp)
    \/ \E i \in Tasks : \E e \in LiveExceptions(links[i].url) : GetFail(i, e)
    \/ Return

\* The event loop runs every task that can run: a released slot wakes a
\* waiter, every HTTP attempt ends (the per-request timeout bounds it), and
\* gather resumes the caller once the tasks are over.
SpecLive ==
    /\ Init
    /\ [][NextLive]_vars
    /\ \A i \in 1..MaxLinks : WF_vars(TaskStep(i))
    /\ WF_vars(Return)

(* ------------------------- the batch in time ------------------------- *)

\* self.timeout in ticks of the clock.
TimeoutTicks == 2

\* A request that may run for twice the timeout.
WithinTwiceTimeout(started, at) == at - started < 2 * TimeoutTicks

\* aiohttp.ClientTimeout(total=self.timeout): a request that began at
\* started is still allowed to run at the tick at.
WithinTimeout(started, at) == at - started < TimeoutTicks

\* The clock moves on by one tick.  The event loop takes no time: the
\* clock stands still while a waiting probe can get a slot or gather can
\* return, and no request outlives its timeout.
Tick ==
    /\ batch_pc = "gather"
    /\ InFlight > 0
    /\ \A i \in Tasks : task_pc[i] \in {"head", "get"} => WithinTimeout(attempt_start[i], now)
    /\ ~(CanAcquire(sem_value) /\ \E i \in Tasks : task_pc[i] = "waiting")
    /\ now' = now + 1
    /\ UNCHANGED <<attempt_start, audit_vars, max_concurrent, links, batch_vars, sync_vars>>

NextTimed ==
    \/ StartBatch
    \/ \E i \in Tasks : Admit(i)
    \/ \E i \in Tasks : AdmitRaise(i)
    \/ \E i \in Tasks : \E resp \in LiveResponses(links[i].url) : HeadResponse(i, resp)
    \/ \E i \in Tasks : \E e \in LiveExceptions(links[i].url) : HeadFail(i, e)
    \/ \E i \in Tasks : \E resp \in LiveResponses(links[i].url) : GetResponse(i, resp)
    \/ \E i \in Tasks : \E e \in LiveExceptions(links[i].url) : GetFail(i, e)
    \/ Return
    \/ Tick

SpecTimed == Init /\ [][NextTimed]_vars

(* --------------------------- audit_website ---------------------------- *)

\* max_concurrent of a ProfessionalLinkChecker built without one.
DefaultMaxConcurrent == 10

\* A request url that validators.url rejects.
InvalidRequestUrl == U("bad host", "/")

\* A page with hrefs [A, B, A, C]: the third anchor repeats the URL of the
\* first under another text.
RepeatDoc ==
    << Anchor(<<"/a">>, <<"A">>, <<>>),
       Anchor(<<"https://", "other.test", "/b">>, <<"B">>, <<"T">>),
       Anchor(<<" ", "/a", " ">>, <<>>, <<"T">>),
       Anchor(<<"/c">>, LongText, <<>>) >>

\* The pages a fetch can bring: up to MaxAnchors anchor elements, or the
\* page with a repeated href.
Docs == UNION {[1..n -> Anchors] : n \in 0..MaxAnchors} \cup {RepeatDoc}

\* "except Exception" around the body of audit_website: whatever is raised
\* inside, an HTTPException included, is answered with status 500.
AuditFailure == HttpResponse(500, "Audit failed")

\* raise HTTPException(status_code=400, detail="Invalid URL provided")
InvalidUrlError == HttpResponse(400, "Invalid URL provided")

\* The handler of audit_website applied to what was raised in its try
\* block: HTTPException is an Exception, so it is caught like any other.
ExceptException(raised) == AuditFailure

\* analyze has no handler: what is raised inside reaches its caller.
RaisedToCaller == HttpResponse(None, "raised")

\* What the caller gets when the run raises after its url was accepted.
FailureOf(req) == IF req.entry = "analyze" THEN RaisedToCaller ELSE AuditFailure

\* POST /api/audit has been received and the handler is about to run, or
\* the command line is about to call analyze for a url it has validated.
InitAudit ==
    /\ max_concurrent = DefaultMaxConcurrent
    /\ links = <<>>
    /\ batch_pc = "idle"
    /\ session_open = FALSE
    /\ sem_value = 0
    /\ task_pc = <<>>
    /\ task_log = <<>>
    /\ task_result = <<>>
    /\ valid_results = <<>>
    /\ sync_pc = "idle"
    /\ sync_link = Candidates[1]
    /\ sync_log = <<>>
    /\ sync_result = NoResult
    /\ audit_pc = "received"
    /\ \/ \E url \in {BaseUrl, InvalidRequestUrl} : \E limit \in 0..MaxConcurrent :
              request = AuditRequest(url, limit)
       \/ request = AnalyzeCall(BaseUrl, MaxConcurrent)
    /\ html = <<>>
    /\ audit_response = NoResponse
    /\ statistics = <<>>
    /\ categories = <<>>
    /\ now = 0
    /\ attempt_start = <<>>

\* validators.url(request.url), then the analyzer is built and given the
\* request's max_concurrent.
Validate ==
    /\ audit_pc = "received"
    /\ IF ValidUrl(request.url)
       THEN /\ audit_pc' = "fetching"
            /\ max_concurrent' = request.max_concurrent
            /\ UNCHANGED audit_response
       ELSE /\ audit_pc' = "failed"
            /\ audit_response' = ExceptException(InvalidUrlError)
            /\ UNCHANGED max_concurrent
    /\ UNCHANGED <<links, batch_vars, clock_vars, sync_vars, request, html, statistics, categories>>

\* analyzer.fetch_page_content() returns the page.
FetchOk ==
    /\ audit_pc = "fetching"
    /\ audit_pc' = "extracting"
    /\ \E doc \in Docs : html' = doc
    /\ UNCHANGED <<max_concurrent, links, batch_vars, clock_vars, sync_vars, request,
                   audit_response, statistics, categories>>

\* analyzer.fetch_page_content() raises (no answer, or raise_for_status).
FetchFail ==
    /\ audit_pc = "fetching"
    /\ audit_pc' = "failed"
    /\ audit_response' = FailureOf(request)
    /\ UNCHANGED <<max_concurrent, links, batch_vars, clock_vars, sync_vars, request, html,
                   statistics, categories>>

\* links = analyzer.link_checker.extract_links(html_content)
Extract ==
    /\ audit_pc = "extracting"
    /\ IF ExtractRaises(html)
       THEN /\ audit_pc' = "failed"
            /\ audit_response' = FailureOf(request)
            /\ UNCHANGED links
       ELSE /\ audit_pc' = "checking"
            /\ links' = ExtractLinks(html)
            /\ UNCHANGED audit_response
    /\ UNCHANGED <<max_concurrent, batch_vars, clock_vars, sync_vars, request, html,
                   statistics, categories>>

\* check_links_async has returned link_results: the statistics and the
\* categories are computed and the response is sent.
Aggregate ==
    /\ audit_pc = "checking"
    /\ batch_pc = "returned"
    /\ audit_pc' = "done"
    /\ statistics' = CalculateStatistics(valid_results)
    /\ categories' = CategorizeErrors(valid_results)
    /\ audit_response' = HttpResponse(200, "")
    /\ UNCHANGED <<max_concurrent, links, batch_vars, clock_vars, sync_vars, request, html>>

\* A list from extract_links holds validated URLs only, so no probe of an
\* audit raises before its try block.
NextAudit ==
    \/ Validate
    \/ FetchOk
    \/ FetchFail
    \/ Extract
    \/ StartBatch
    \/ \E i \in Tasks : Admit(i)
    \/ \E i \in Tasks : \E resp \in LiveResponses(links[i].url) : HeadResponse(i, resp)
    \/ \E i \in Tasks : \E e \in LiveExceptions(links[i].url) : HeadFail(i, e)
    \/ \E i \in Tasks : \E resp \in LiveResponses(links[i].url) : GetResponse(i, resp)
    \/ \E i \in Tasks : \E e \in LiveExceptions(links[i].url) : GetFail(i, e)
    \/ Return
    \/ Aggregate

SpecAudit == InitAudit /\ [][NextAudit]_vars

(* ------------------ the two aggregations on their own ----------------- *)

\* An attempt that ended t ticks after the probe started.
Took(outcome, t) == [outcome EXCEPT !.elapsed = t]

\* Results of every shape a probe returns, for an internal and an external
\* link: working with and without redirects, broken with a status inside
\* and outside 400..599, broken without a status under each message; the
\* durations go from none to BigTime.
ResultPool ==
    LET a == Candidates[1]
        b == Candidates[2]
    IN  { SyncHeadResult(a, Took(Response(200, a.url, <<>>), 1)),
          SyncHeadResult(b, Took(Response(200, MovedUrl, <<b.url>>), 2)),
          AsyncHeadResult(a, Took(Response(302, a.url, <<>>), BigTime)),
          AsyncHeadResult(b, Took(Response(405, b.url, <<>>), 1)),
          SyncGetResult(a, Took(Response(500, a.url, <<>>), 2)),
          SyncGetErrorResult(b, Took(Raised("Exceeded 30 redirects", 302, b.url, TRUE), 1)),
          AsyncGetErrorResult(a, Took(Raised("Read timeout", None, a.url, TRUE), BigTime)),
          AsyncGetErrorResult(b, Took(Raised("Connect Timeout", None, b.url, TRUE), 2)),
          SyncGetErrorResult(a, Took(Raised("Connection refused", None, a.url, TRUE), 0)) }

\* check_links_async has just handed link_results to its caller.
InitAgg ==
    /\ max_concurrent = DefaultMaxConcurrent
    /\ links = <<>>
    /\ batch_pc = "returned"
    /\ session_open = FALSE
    /\ sem_value = max_concurrent
    /\ task_pc = <<>>
    /\ task_log = <<>>
    /\ task_result = <<>>
    /\ \E n \in 0..MaxResults : valid_results \in [1..n -> ResultPool]
    /\ sync_pc = "idle"
    /\ sync_link = Candidates[1]
    /\ sync_log = <<>>
    /\ sync_result = NoResult
    /\ audit_pc = "checking"
    /\ request = AuditRequest(BaseUrl, DefaultMaxConcurrent)
    /\ html = <<>>
    /\ audit_response = NoResponse
    /\ statistics = <<>>
    /\ categories = <<>>
    /\ now = 0
    /\ attempt_start = <<>>

NextAgg == Aggregate

SpecAgg == InitAgg /\ [][NextAgg]_vars

(* ------------------------------ probes -------------------------------- *)

\* Every probe of the state, blocking or asynchronous, in one shape.
Probes ==
    {[impl |-> "async", pc |-> task_pc[i], log |-> task_log[i],
      result |-> task_result[i], link |-> links[i]] : i \in Tasks}
    \cup
    {[impl |-> "sync", pc |-> sync_pc, log |-> sync_log,
      result |-> sync_result, link |-> sync_link]}

HeadTried(p) == Len(p.log) >= 1

GetTried(p) == Len(p.log) >= 2

HeadOutcome(p) == p.log[1].outcome

GetOutcome(p) == p.log[2].outcome

\* The attempt failed and no status was obtained: the library's own
\* failure of the request, with no response attached to it.
NoStatusFailure(o) ==
    o.kind = "exception" /\ o.request_exception /\ o.status = None

\* The attempt was answered with a status in 200..399.
AnsweredOk(o) == o.kind = "response" /\ 200 <= o.status /\ o.status < 400

(* ------------------------------ claims -------------------------------- *)

\* C1: with max_concurrent >= 1, the number of probes admitted by the
\* semaphore and not yet completed never exceeds max_concurrent.
C1_ConcurrencyBound ==
    max_concurrent >= 1 => InFlight <= max_concurrent

\* C1 witness: the ceiling is reached while another probe waits for a slot.
C1_Saturated ==
    /\ batch_pc = "gather"
    /\ max_concurrent >= 1
    /\ InFlight = max_concurrent
    /\ \E i \in Tasks : task_pc[i] = "waiting"

\* C2 (as claimed): whatever the probes' outcomes, an exception escaping a
\* probe included, the returned list is as long as the candidate list.
C2_FullLength ==
    batch_pc = "returned" => Len(valid_results) = Len(links)

\* C3 (as claimed): a link whose probe let an exception escape has a result
\* in the returned list, with is_working false and an error message.
C3_RaisedBecomesResult ==
    batch_pc = "returned" =>
        \A i \in Tasks :
            task_pc[i] = "raised" =>
                \E k \in 1..Len(valid_results) :
                    /\ valid_results[k].url = links[i].url
                    /\ ~valid_results[k].is_working
                    /\ valid_results[k].error_message # ""

\* C4: a probe task that raises does not abort the batch: the call never
\* ends by raising, a waiting sibling is not left without a slot, and once
\* the call has returned every sibling that did not raise has completed and
\* has its result in the returned list.
C4_SiblingsSurvive ==
    /\ batch_pc # "raised"
    /\ (/\ batch_pc = "gather"
        /\ max_concurrent >= 1
        /\ InFlight = 0
        /\ \E i \in Tasks : task_pc[i] = "raised"
        /\ \E j \in Tasks : task_pc[j] = "waiting") => CanAcquire(sem_value)
    /\ (batch_pc = "returned" /\ \E i \in Tasks : task_pc[i] = "raised") =>
           \A j \in Tasks :
               task_pc[j] # "raised" =>
                   /\ task_pc[j] = "done"
                   /\ \E k \in 1..Len(valid_results) :
                          valid_results[k] = task_result[j]

\* C4 witness: the call has returned, one task raised and a sibling's
\* result is in the list.
C4_RaisedAndSiblingDone ==
    /\ batch_pc = "returned"
    /\ \E i, j \in Tasks :
           /\ task_pc[i] = "raised"
           /\ task_pc[j] = "done"
           /\ \E k \in 1..Len(valid_results) : valid_results[k] = task_result[j]

\* C5 (as claimed): every LinkResult a probe returns has
\* is_working = (status_code present and 200 <= status_code < 400).
C5_WorkingIffStatusOk ==
    \A p \in Probes :
        p.pc = "done" =>
            (p.result.is_working <=>
                (/\ p.result.status_code # None
                 /\ 200 <= p.result.status_code
                 /\ p.result.status_code < 400))

\* C6 (as claimed): once a probe has issued its HEAD request, no outcome
\* of its HEAD and GET attempts makes it raise to its caller.
C6_NeverRaises ==
    \A p \in Probes : HeadTried(p) => p.pc # "raised"

\* The protocol facts C7 states besides the fallback condition: HEAD is the
\* first attempt, a GET can only be the second, there is no third, and a
\* HEAD that was answered ends the probe.
ProbeShape(p) ==
    /\ Len(p.log) <= 2
    /\ HeadTried(p) => p.log[1].method = "HEAD"
    /\ GetTried(p) => p.log[2].method = "GET"
    /\ (HeadTried(p) /\ HeadOutcome(p).kind = "response") =>
           (~GetTried(p) /\ p.pc = "done")

\* C7 (as claimed): HEAD first, at most one HEAD and one GET, no GET after
\* an answered HEAD, and a GET is made if and only if the HEAD attempt
\* failed with no status obtained.
C7_GetIffNoStatusFailure ==
    \A p \in Probes :
        /\ ProbeShape(p)
        /\ (HeadTried(p) /\ HeadOutcome(p).kind # "pending") =>
               (GetTried(p) <=> NoStatusFailure(HeadOutcome(p)))

\* C7 (amended): HEAD first, at most one HEAD and one GET, no GET after an
\* answered HEAD, and a GET is made if and only if the HEAD attempt raised
\* an exception the probe handles: any RequestException in the blocking
\* probe, any exception in the asynchronous one, with or without a status.
C7_GetIffHandledFailure ==
    \A p \in Probes :
        /\ ProbeShape(p)
        /\ (HeadTried(p) /\ HeadOutcome(p).kind # "pending") =>
               (GetTried(p) <=>
                   /\ HeadOutcome(p).kind = "exception"
                   /\ (p.impl = "async" \/ HeadOutcome(p).request_exception))

\* C7 witness: a GET was made after a HEAD failure that carried a status.
C7_GetAfterFailureWithStatus ==
    \E p \in Probes :
        /\ GetTried(p)
        /\ HeadOutcome(p).kind = "exception"
        /\ HeadOutcome(p).status # None

\* C8 (as claimed): a link whose HEAD is answered 405, or not answered at
\* all, is retried with GET and reported by the GET outcome.
C8_Retry405OrNoAnswer ==
    \A p \in Probes :
        (/\ HeadTried(p)
         /\ \/ NoStatusFailure(HeadOutcome(p))
            \/ HeadOutcome(p).kind = "response" /\ HeadOutcome(p).status = 405) =>
            /\ GetTried(p)
            /\ p.pc = "done" => (p.result.is_working <=> AnsweredOk(GetOutcome(p)))

\* C8 (amended): a link whose HEAD is not answered at all is retried with
\* GET and any result returned for it is working or broken by the GET
\* outcome; a HEAD answered 405 is not retried and the link is reported
\* broken from that answer.
C8_RetryNoAnswerOnly ==
    \A p \in Probes :
        /\ (HeadTried(p) /\ NoStatusFailure(HeadOutcome(p))) =>
               /\ GetTried(p)
               /\ p.pc = "done" =>
                      (p.result.is_working <=> AnsweredOk(GetOutcome(p)))
        /\ (/\ HeadTried(p)
            /\ HeadOutcome(p).kind = "response"
            /\ HeadOutcome(p).status = 405) =>
               /\ ~GetTried(p)
               /\ p.pc = "done"
               /\ ~p.result.is_working
               /\ p.result.status_code = 405

\* C8 witness: HEAD not answered, GET answered, and the link is reported
\* working.
C8_FallbackReportsWorking ==
    \E p \in Probes :
        /\ p.pc = "done"
        /\ NoStatusFailure(HeadOutcome(p))
        /\ AnsweredOk(GetOutcome(p))
        /\ p.result.is_working

\* C9 (as claimed): HEAD failed with no status and GET was answered: the
\* result has method_used = GET, retry_count = 1 and is_working by the GET
\* status.
C9_FallbackFields ==
    \A p \in Probes :
        (/\ p.pc = "done"
         /\ NoStatusFailure(HeadOutcome(p))
         /\ GetOutcome(p).kind = "response") =>
            /\ p.result.method_used = "GET"
            /\ p.result.retry_count = 1
            /\ p.result.is_working <=> AnsweredOk(GetOutcome(p))

\* C10 (as claimed): HEAD and GET both failed with no response attached:
\* status_code = None, is_working = False, error_message is the text of the
\* GET failure, redirect_chain = [], final_url is the original url,
\* method_used = GET and retry_count = 1.
C10_DoubleFailureFields ==
    \A p \in Probes :
        (/\ p.pc = "done"
         /\ NoStatusFailure(HeadOutcome(p))
         /\ NoStatusFailure(GetOutcome(p))) =>
            /\ p.result.status_code = None
            /\ ~p.result.is_working
            /\ p.result.error_message = GetOutcome(p).text
            /\ p.result.redirect_chain = <<>>
            /\ p.result.final_url = p.link.url
            /\ p.result.method_used = "GET"
            /\ p.result.retry_count = 1

\* C11 (as claimed): when the GET failure of a probe carries a response,
\* that response's status is the result's status_code and the result is
\* marked not working, in the blocking and in the asynchronous probe.
C11_FailureStatusRecorded ==
    \A p \in Probes :
        (/\ p.pc = "done"
         /\ GetTried(p)
         /\ GetOutcome(p).kind = "exception"
         /\ GetOutcome(p).status # None) =>
            /\ p.result.status_code = GetOutcome(p).status
            /\ ~p.result.is_working

\* The URLs a response went through, the final one last.
Visited(resp) == resp.history \o <<resp.url>>

\* C12 (as claimed): every result check_links_async returns has as
\* redirect_chain the URLs visited, the final one last, when the final
\* response was reached through more than one URL, and the empty list when
\* one URL was visited or the probe failed.
C12_RedirectChainRecorded ==
    batch_pc = "returned" =>
        \A i \in Tasks :
            task_pc[i] = "done" =>
                LET o == task_log[i][Len(task_log[i])].outcome
                IN  task_result[i].redirect_chain =
                        IF o.kind = "response" /\ Len(Visited(o)) > 1
                        THEN Visited(o) ELSE <<>>

\* C13 (as claimed): the returned list holds the result for links[i] at
\* position i, for every i.
C13_ResultAtLinkPosition ==
    batch_pc = "returned" =>
        \A i \in LinkIndexes :
            /\ i <= Len(valid_results)
            /\ valid_results[i].url = links[i].url

\* C14: with max_concurrent >= 1 and every HTTP attempt ending, every probe
\* task waiting for a slot is eventually admitted, and the batch eventually
\* returns with every task over.
C14_BatchTerminates ==
    /\ \A i \in 1..MaxLinks :
           (max_concurrent >= 1 /\ i \in Tasks /\ task_pc[i] = "waiting")
               ~> (i \in Tasks /\ task_pc[i] # "waiting")
    /\ (max_concurrent >= 1 /\ batch_pc = "gather")
           ~> (batch_pc = "returned" /\ \A i \in Tasks : Finished(i))

\* C14 witness: a batch with more links than slots has returned with every
\* probe completed.
C14_QueuedBatchReturned ==
    /\ batch_pc = "returned"
    /\ max_concurrent >= 1
    /\ Len(links) > max_concurrent
    /\ \A i \in Tasks : task_pc[i] = "done"

\* C15: within one audit run the batch has exactly one probe task per
\* candidate, no two tasks probe the same URL, the returned list holds
\* exactly one LinkResult per candidate, and a LinkResult, once its task
\* has returned it or the batch has returned the list, never changes.
C15_OneResultPerCandidate ==
    /\ [](batch_pc # "idle" =>
            /\ Tasks = LinkIndexes
            /\ \A i, j \in Tasks : links[i].url = links[j].url => i = j)
    /\ [](batch_pc = "returned" =>
            /\ Len(valid_results) = Len(links)
            /\ \A i \in LinkIndexes :
                   Cardinality({k \in 1..Len(valid_results) :
                                   valid_results[k].url = links[i].url}) = 1)
    /\ [][/\ \A i \in Tasks : task_pc[i] = "done" => task_result'[i] = task_result[i]
          /\ batch_pc = "returned" => valid_results' = valid_results]_vars

\* C15 witness: a page whose two anchors resolve to one URL has been
\* audited with a single probe, whose result has been returned.
C15_RepeatedLinkProbedOnce ==
    /\ audit_pc = "done"
    /\ Len(RawLinks(html, Len(html))) = 2
    /\ Len(links) = 1
    /\ Len(valid_results) = 1
    /\ task_log[1] # <<>>

\* C16 (as claimed): a result's link_type is "internal" exactly when the
\* host of the candidate URL equals the host of the audited page, whatever
\* the probe ended in.
C16_InternalIffSameHost ==
    \A i \in Tasks :
        task_pc[i] = "done" =>
            (task_result[i].link_type = "internal"
                <=> Hostname(links[i].url) = Hostname(request.url))

(* ------------------- the candidates and their page -------------------- *)

\* The href of the k-th anchor of the fetched page after strip(), and the
\* absolute URL it resolves to.
HrefOf(k) == Strip(html[k].href)

UrlOf(k) == Urljoin(BaseUrl, HrefOf(k))

\* The k-th anchor gets past both "continue" statements of extract_links.
Kept(k) == ~Skipped(HrefOf(k)) /\ ValidUrl(UrlOf(k))

\* The anchors that are the first of the page to resolve to their URL.
FirstOccurrences ==
    {k \in 1..Len(html) : Kept(k) /\ \A j \in 1..(k - 1) : Kept(j) => UrlOf(j) # UrlOf(k)}

\* The i-th first occurrence in document order.
NthFirst(i) ==
    CHOOSE k \in FirstOccurrences : Cardinality({j \in FirstOccurrences : j < k}) = i - 1

\* links holds what extract_links returned for html.
Extracted == audit_pc \in {"checking", "done"}

\* C17: extract_links returns one candidate per distinct resolved URL, in
\* the document order of the first anchors resolving to each URL, each with
\* the anchor text of that first anchor.
C17_FirstOccurrenceKept ==
    Extracted =>
        /\ Len(links) = Cardinality(FirstOccurrences)
        /\ \A i \in 1..Len(links) :
               /\ links[i].url = UrlOf(NthFirst(i))
               /\ links[i].anchor = AnchorText(html[NthFirst(i)], HrefOf(NthFirst(i)))
        /\ \A k \in 1..Len(html) :
               Kept(k) => Cardinality({i \in 1..Len(links) : links[i].url = UrlOf(k)}) = 1

\* C17 witness: the page with hrefs [A, B, A, C] gave candidates [A, B, C],
\* the first under the text of its first anchor.
C17_RepeatDocExtracted ==
    /\ Extracted
    /\ html = RepeatDoc
    /\ Len(links) = 3
    /\ links[1] = [url |-> U("site.test", "/a"), anchor |-> <<"A">>]
    /\ links[2].url = U("other.test", "/b")
    /\ links[3].url = U("site.test", "/c")

\* C18: an anchor whose trimmed href is empty or begins with '#',
\* 'javascript:', 'mailto:' or 'tel:', or whose resolved URL fails the
\* validity check, gives no candidate: every candidate, every probe and
\* every LinkResult of the audit is for the URL of an anchor that is none
\* of these.
C18_DroppedNeverProbed ==
    Extracted =>
        LET Dropped(k) ==
                \/ Len(HrefOf(k)) = 0
                \/ HrefOf(k)[1] \in {"#", "javascript:", "mailto:", "tel:"}
                \/ ~ValidUrl(UrlOf(k))
            kept_urls == {UrlOf(k) : k \in {j \in 1..Len(html) : ~Dropped(j)}}
        IN  /\ \A i \in 1..Len(links) : links[i].url \in kept_urls
            /\ \A i \in Tasks : \A n \in 1..Len(task_log[i]) :
                   task_log[i][n].outcome.url \in kept_urls
            /\ \A i \in Tasks : task_pc[i] = "done" => task_result[i].url \in kept_urls
            /\ \A n \in 1..Len(valid_results) : valid_results[n].url \in kept_urls

\* C18 witness: an audit is over whose page held a '#' href and an href
\* resolving to an invalid URL, and it had no candidate and no result.
C18_AllAnchorsDropped ==
    /\ audit_pc = "done"
    /\ Len(html) = 2
    /\ HrefOf(1) = <<"#", "top">>
    /\ HrefOf(2) = <<"https://", "bad host", "/x">>
    /\ links = <<>>
    /\ statistics.total_links = 0

(* ------------------------- the aggregate ------------------------------ *)

\* statistics and categories hold the aggregate of valid_results.
Aggregated == audit_pc = "done"

\* Number of places of a list that hold the result r.
Occurrences(list, r) == Cardinality({n \in 1..Len(list) : list[n] = r})

RECURSIVE SumValues(_, _)
SumValues(dict, S) ==
    IF S = {} THEN 0
    ELSE LET key == CHOOSE x \in S : TRUE
         IN  dict[key] + SumValues(dict, S \ {key})

\* C20: working_links + broken_links = total_links, and the values of
\* status_code_distribution add up to the number of results that have a
\* status code.
C20_StatisticsConsistent ==
    Aggregated =>
        /\ statistics.working_links + statistics.broken_links = statistics.total_links
        /\ SumValues(statistics.status_code_distribution,
                     DOMAIN statistics.status_code_distribution)
               = Cardinality({k \in 1..Len(valid_results) :
                                 valid_results[k].status_code # None})

\* C20 witness: the statistics of a list of a result without a status code
\* and a result with status 500 have been calculated.
C20_MixedListCounted ==
    /\ Aggregated
    /\ Len(valid_results) = 2
    /\ valid_results[1].status_code = None
    /\ valid_results[2].status_code = 500
    /\ statistics.status_code_distribution[500] = 1
    /\ statistics.total_links = 2

\* The ways to reorder a list of n results, and the list reordered.
Orderings(n) == {f \in [1..n -> 1..n] : \A i, j \in 1..n : f[i] = f[j] => i = j}

Reordered(list, f) == [k \in 1..Len(list) |-> list[f[k]]]

\* C21 (as claimed): calculate_statistics gives the same output, and
\* categorize_errors the same members of every category, for every
\* reordering of the result list.
C21_OrderIndependent ==
    Aggregated =>
        \A f \in Orderings(Len(valid_results)) :
            /\ CalculateStatistics(Reordered(valid_results, f)) = statistics
            /\ \A name \in CategoryNames : \A k \in 1..Len(valid_results) :
                   Occurrences(CategorizeErrors(Reordered(valid_results, f))[name], valid_results[k])
                       = Occurrences(categories[name], valid_results[k])

(* ------------------------- duration of a batch ------------------------ *)

\* ceil(n / c) for c >= 1.
CeilDiv(n, c) == (n + c - 1) \div c

\* C22 (as claimed): a batch of N probes under ceiling C >= 1 has returned
\* no later than ceil(N / C) timeouts after its start.
C22_WithinOneTimeoutPerRound ==
    (batch_pc = "returned" /\ max_concurrent >= 1) =>
        now <= CeilDiv(Len(links), max_concurrent) * TimeoutTicks

\* C22 (amended): a batch of N probes under ceiling C >= 1 has returned no
\* later than ceil(N / C) times two timeouts after its start, a probe
\* making up to two HTTP attempts of at most one timeout each.
C22_WithinTwoTimeoutsPerRound ==
    (batch_pc = "returned" /\ max_concurrent >= 1) =>
        now <= CeilDiv(Len(links), max_concurrent) * 2 * TimeoutTicks

\* C22 witness: a batch with more probes than slots took all of
\* ceil(N / C) times two timeouts, every probe having made both attempts.
C22_SlowestBatch ==
    /\ batch_pc = "returned"
    /\ max_concurrent >= 1
    /\ Len(links) > max_concurrent
    /\ \A i \in Tasks : task_pc[i] = "done" /\ Len(task_log[i]) = 2
    /\ now = CeilDiv(Len(links), max_concurrent) * 2 * TimeoutTicks

(* --------------------------- the audit run ---------------------------- *)

\* C23 (as claimed): once the handler has looked at a request whose url
\* fails the validity check, the answer is HTTP 400 "Invalid URL provided",
\* and neither the page has been fetched nor a probe started.
C23_InvalidUrlAnswered400 ==
    (audit_pc \notin {"none", "received"} /\ ~ValidUrl(request.url)) =>
        /\ audit_response = HttpResponse(400, "Invalid URL provided")
        /\ html = <<>>
        /\ batch_pc = "idle"

(* --------------------------- the semaphore ---------------------------- *)

\* Tasks with an HTTP request under way.
RequestsInFlight ==
    {i \in Tasks : task_log[i] # <<>> /\ task_log[i][Len(task_log[i])].outcome.kind = "pending"}

\* C24: the slots taken are exactly those of the probes that have started
\* and not completed: a waiting probe has made no request, a probe that
\* returned or raised holds no slot, and once check_links_async has
\* returned every slot is free.
C24_SlotsHeldWhileProbing ==
    batch_pc \in {"gather", "returned"} =>
        /\ sem_value = max_concurrent - InFlight
        /\ \A i \in Tasks : task_pc[i] = "waiting" => task_log[i] = <<>>
        /\ batch_pc = "returned" => sem_value = max_concurrent

\* C24 witness: a batch has returned in which one probe raised and another
\* returned a result, and all of its slots are free.
C24_SlotsFreeAfterRaise ==
    /\ batch_pc = "returned"
    /\ max_concurrent >= 1
    /\ \E i \in Tasks : task_pc[i] = "raised"
    /\ \E i \in Tasks : task_pc[i] = "done"
    /\ sem_value = max_concurrent

\* C25: the step from a failed HEAD to the GET fallback leaves the
\* semaphore as it is, and never are more HTTP requests under way than
\* max_concurrent.
C25_SlotKeptForFallback ==
    /\ [](batch_pc = "gather" => Cardinality(RequestsInFlight) <= max_concurrent)
    /\ [][\A i \in Tasks :
            (batch_pc = "gather" /\ task_pc[i] = "head" /\ task_pc'[i] = "get")
                => sem_value' = sem_value]_vars

\* C25 witness: with every slot taken, a probe is in its GET fallback
\* while another one waits.
C25_FallbackHoldsLastSlot ==
    /\ batch_pc = "gather"
    /\ sem_value = 0
    /\ \E i \in Tasks : task_pc[i] = "get" /\ i \in RequestsInFlight
    /\ \E i \in Tasks : task_pc[i] = "waiting"

\* C26: a request with max_concurrent = 0 is accepted, and when its page
\* has candidates no probe is ever admitted and check_links_async never
\* returns: the batch stays in gather with every task waiting, and the
\* audit is never answered.
C26_ZeroCeilingNeverReturns ==
    (request.max_concurrent = 0 /\ audit_pc \in {"checking", "done"} /\ Len(links) > 0) =>
        /\ audit_pc = "checking"
        /\ max_concurrent = 0
        /\ batch_pc \in {"idle", "gather"}
        /\ \A i \in Tasks : task_pc[i] = "waiting" /\ task_log[i] = <<>>
        /\ audit_response = NoResponse

\* C26 witness: the batch of an audit asked for with max_concurrent = 0
\* waits in gather with two probes that have no slot.
C26_StuckInGather ==
    /\ request.max_concurrent = 0
    /\ audit_pc = "checking"
    /\ batch_pc = "gather"
    /\ Len(links) = 2
    /\ sem_value = 0

(* ----------------------- the end of the batch ------------------------- *)

\* C27: the list has been returned, or the session of a started batch
\* closed, only when every probe task is over: none waits for a slot and
\* none is in flight.
C27_ReturnAfterAllProbes ==
    (batch_pc = "returned" \/ (batch_pc # "idle" /\ ~session_open)) =>
        /\ \A i \in Tasks : Finished(i)
        /\ InFlight = 0
        /\ RequestsInFlight = {}

\* C27 witness: a batch of two probes sharing one slot has returned and
\* its session is closed.
C27_QueuedBatchClosed ==
    /\ batch_pc = "returned"
    /\ ~session_open
    /\ max_concurrent = 1
    /\ Len(links) = 2
    /\ \A i \in Tasks : Finished(i)

(* ---------------------- the categories together ----------------------- *)

\* The categories that hold the result r.
CategoriesHolding(r) == {name \in CategoryNames : Occurrences(categories[name], r) > 0}

ErrorCategories == {"4xx_errors", "5xx_errors", "timeouts", "network_errors"}

\* C28: every result is in exactly one of working_links and broken_links;
\* a broken result is in at most one of 4xx_errors, 5xx_errors, timeouts
\* and network_errors, and in none of them when it has a status code
\* outside 400..599.
C28_CategoriesDisjoint ==
    Aggregated =>
        \A k \in 1..Len(valid_results) :
            LET r == valid_results[k]
                held == CategoriesHolding(r)
            IN  /\ Cardinality(held \cap {"working_links", "broken_links"}) = 1
                /\ "broken_links" \in held => Cardinality(held \cap ErrorCategories) <= 1
                /\ ("broken_links" \in held /\ r.status_code # None
                        /\ ~(400 <= r.status_code /\ r.status_code < 600))
                       => held \cap ErrorCategories = {}

\* C28 witness: a broken result with status 302 has been categorized, next
\* to a broken result that is in one error category.
C28_BrokenRedirectUncategorized ==
    /\ Aggregated
    /\ Len(valid_results) = 2
    /\ valid_results[1].status_code = 302 /\ ~valid_results[1].is_working
    /\ CategoriesHolding(valid_results[1]) = {"broken_links"}
    /\ Cardinality(CategoriesHolding(valid_results[2]) \cap ErrorCategories) = 1

\* C29: the network_errors count of the statistics is the size of the
\* network_errors category plus the size of the timeouts category.
C29_NetworkErrorsCountTimeouts ==
    Aggregated =>
        statistics.network_errors =
            Len(categories["network_errors"]) + Len(categories["timeouts"])

\* C29 witness: a timed-out link and a refused link have been aggregated:
\* one in each category, two network errors in the statistics.
C29_TimeoutCountedAsNetworkError ==
    /\ Aggregated
    /\ Len(categories["timeouts"]) = 1
    /\ Len(categories["network_errors"]) = 1
    /\ statistics.network_errors = 2

\* C30: a batch is started only in an audit whose page was fetched and
\* whose candidates were extracted from it; when the fetch fails no probe
\* task exists, nothing is aggregated, and the caller gets an error: HTTP
\* 500 from audit_website, the exception from analyze.
C30_ProbingAfterFetch ==
    /\ batch_pc # "idle" => (Extracted /\ links = ExtractLinks(html))
    /\ audit_pc \in {"received", "fetching", "extracting", "failed"} =>
           (batch_pc = "idle" /\ Tasks = {} /\ valid_results = <<>>
               /\ DOMAIN statistics = {} /\ DOMAIN categories = {})
    /\ (audit_pc = "failed" /\ ValidUrl(request.url)) =>
           audit_response =
               IF request.entry = "analyze"
               THEN HttpResponse(None, "raised") ELSE HttpResponse(500, "Audit failed")

\* C30 witness: the fetch of an accepted url failed, and audit_website
\* answered 500 with no page, no candidate and no probe.
C30_FetchFailedNoProbe ==
    /\ audit_pc = "failed"
    /\ request.entry = "audit_website"
    /\ ValidUrl(request.url)
    /\ html = <<>>
    /\ batch_pc = "idle"
    /\ audit_response = AuditFailure

====
